---- MODULE Spec2Model ----
(***************************************************************************)
(* Model of the qr-box-mover robot: the mission loop (robot.py), the box   *)
(* inventory (components/box_manager.py), the arm's serial command channel *)
(* (components/robotic_arm.py) and the planner (navigation/).              *)
(***************************************************************************)
EXTENDS Integers, Sequences, FiniteSets, TLC

\* ------------------------------------------------------------------------
\* Bounds of the model
\* ------------------------------------------------------------------------
\* late arm answers that may be outstanding when a further command times out
MaxBacklog == 1
\* response lines the serial layer may hand over in one data_received call
MaxChunk == 2
\* the planner on its own: grids of up to MaxSide by MaxSide cells, MaxCells
\* cells in all, with up to MaxObstacles obstacle cells
MaxSide == 3
MaxCells == 9
MaxObstacles == 2
\* the route planner on its own: poses with x up to MaxRouteX, y up to MaxRouteY
MaxRouteX == 5
MaxRouteY == 1
\* path smoothing on its own: up to MaxPathLen waypoints with coordinates up
\* to MaxWay
MaxPathLen == 3
MaxWay == 2
\* the validity test on its own: poses up to MaxOut whole units outside the
\* grid on every side
MaxOut == 1
\* loading a map on its own: up to MaxListed obstacle entries in the file
MaxListed == 2
\* building a record on its own: quantities from 0 to MaxQuantity
MaxQuantity == 1

\* ------------------------------------------------------------------------
\* Program constants and configuration
\* ------------------------------------------------------------------------
MAX_BOXES == 4
\* config.sensors.min_distance, in cm
MinDistance == 20
\* float('inf'): the reading of a sensor whose echo timed out
Inf == 1000000
\* config.map.width, config.map.height
Width == 3
Height == 3

None == "None"

Min(a, b) == IF a < b THEN a ELSE b
Abs(a) == IF a < 0 THEN -a ELSE a

\* the static map description read by Map._load_map
MapObstacles == {<<1, 2>>, <<2, 1>>, <<7, 7>>}
MapLocations == [A |-> <<2, 0>>, B |-> <<2, 2>>]
LocationNames == {"A", "B"}

\* grid[y, x] = 1 exactly for the listed obstacle cells inside the grid
Grid == {c \in MapObstacles : 0 <= c[1] /\ c[1] < Width /\ 0 <= c[2] /\ c[2] < Height}

\* Map.get_position: the pose of a named location, or a NavigationError
get_position(name) ==
    IF name \in LocationNames
    THEN [ok |-> TRUE, pos |-> MapLocations[name]]
    ELSE [ok |-> FALSE, pos |-> <<0, 0>>]

\* the robot's map: Map.width, Map.height and the cells grid marks
RobotMap == [width |-> Width, height |-> Height, obstacles |-> Grid]

\* Map.is_valid_position of the map m on integer cell coordinates
is_valid_in(m, c) ==
    IF 0 <= c[1] /\ c[1] < m.width /\ 0 <= c[2] /\ c[2] < m.height
    THEN c \notin m.obstacles
    ELSE FALSE

is_valid_position(c) == is_valid_in(RobotMap, c)

\* int() of a float given in halves (h stands for h / 2): towards zero
int_of_halves(h) == IF h >= 0 THEN h \div 2 ELSE -((-h) \div 2)

\* Map.is_valid_position of the map m on a Position whose coordinates are
\* given in halves
is_valid_pose_in(m, pose) ==
    is_valid_in(m, <<int_of_halves(pose[1]), int_of_halves(pose[2])>>)

\* ------------------------------------------------------------------------
\* Geometry: Position.distance_to in thousandths, math.atan2 in milliradians
\* ------------------------------------------------------------------------
RECURSIVE ISqrtFrom(_, _)
ISqrtFrom(n, r) == IF (r + 1) * (r + 1) > n THEN r ELSE ISqrtFrom(n, r + 1)

\* floor(1000 * sqrt(d2)) for the small squared distances of the grid
Sqrt1000(d2) ==
    LET whole == ISqrtFrom(d2, 0)
        tenth == ISqrtFrom(d2 * 100, whole * 10)
        hund  == ISqrtFrom(d2 * 10000, tenth * 10)
    IN  ISqrtFrom(d2 * 1000000, hund * 10)

distance_to(a, b) ==
    Sqrt1000((a[1] - b[1]) * (a[1] - b[1]) + (a[2] - b[2]) * (a[2] - b[2]))

\* atan(p/q) in milliradians for 0 <= p, 0 < q, p and q at most 4
AtanTable(p, q) ==
    CASE p = 0 -> 0
      [] p = q -> 785
      [] p = 1 /\ q = 2 -> 464
      [] p = 1 /\ q = 3 -> 322
      [] p = 2 /\ q = 1 -> 1107
      [] p = 2 /\ q = 3 -> 588
      [] p = 3 /\ q = 1 -> 1249
      [] p = 3 /\ q = 2 -> 983
      [] p = 1 /\ q = 4 -> 245
      [] p = 2 /\ q = 4 -> 464
      [] p = 3 /\ q = 4 -> 644
      [] p = 4 /\ q = 1 -> 1326
      [] p = 4 /\ q = 2 -> 1107
      [] p = 4 /\ q = 3 -> 927
      [] OTHER -> 785

atan2(dy, dx) ==
    IF dx = 0
    THEN (IF dy > 0 THEN 1571 ELSE IF dy < 0 THEN -1571 ELSE 0)
    ELSE IF dx > 0
         THEN (IF dy >= 0 THEN AtanTable(dy, dx) ELSE -AtanTable(-dy, dx))
         ELSE (IF dy >= 0 THEN 3142 - AtanTable(dy, -dx)
                          ELSE -(3142 - AtanTable(-dy, -dx)))

\* ------------------------------------------------------------------------
\* QR records and BoxManager.create_box_info
\* ------------------------------------------------------------------------
RequiredFields == {"id", "contents", "quantity", "destination"}

\* a raw quantity: an int, a string of digits, another string, null, or the
\* float inf that json.loads makes of Infinity and of 1e999
QInf == [t |-> "inf", n |-> 0]
QInt(n) == [t |-> "int", n |-> n]
QNumStr(n) == [t |-> "numstr", n |-> n]
QStr == [t |-> "str", n |-> 0]
QNull == [t |-> "null", n |-> 0]

QR(keys, id, q, dest) == [keys |-> keys, id |-> id, quantity |-> q, destination |-> dest]

\* the decoded QR payloads the camera can see
QRCodes ==
    { QR(RequiredFields, "b1", QNumStr(2), "A"),
      QR(RequiredFields, "b2", QInt(1), "B"),
      QR(RequiredFields, "b3", QInt(3), "X"),
      QR(RequiredFields, "b4", QStr, "A"),
      QR(RequiredFields, "b5", QNull, "B"),
      QR(RequiredFields \ {"destination"}, "b6", QInt(1), "A"),
      QR(RequiredFields, "b7", QInf, "A") }

\* int(x): the value, or a ValueError / TypeError
IntCoercible(q) == q.t \in {"int", "numstr"}

NoBox == [id |-> None, quantity |-> 0, destination |-> None]

\* int(float('inf')) raises OverflowError, which the except clause of
\* create_box_info (ValueError, TypeError) does not catch
create_box_info_raises(qr) ==
    RequiredFields \subseteq qr.keys /\ qr.quantity.t = "inf"

create_box_info(qr) ==
    IF ~(RequiredFields \subseteq qr.keys) THEN NoBox
    ELSE IF ~IntCoercible(qr.quantity) THEN NoBox
    ELSE [id |-> qr.id, quantity |-> qr.quantity.n, destination |-> qr.destination]

\* QRScanner._validate_qr_data
validate_qr_data(qr) == RequiredFields \subseteq qr.keys

\* what QRScanner.scan can return: a validated payload, or None
NoQR == QR({}, None, QNull, None)
ScanResults == {q \in QRCodes : validate_qr_data(q)} \cup {NoQR}

\* the BoxInfo records that can exist
Boxes == {create_box_info(q) : q \in QRCodes} \ {NoBox}


\* ------------------------------------------------------------------------
\* PathPlanner
\* ------------------------------------------------------------------------
\* PathPlanner._get_neighbors: left, right, up, down, traversable ones only
Directions == <<(<<-1, 0>>), (<<1, 0>>), (<<0, -1>>), (<<0, 1>>)>>

\* a slip in _get_neighbors: the last direction is left out
get_neighbors_in_M(m, c) ==
    LET traversable(n) == is_valid_in(m, n)
    IN  SelectSeq([i \in 1..3 |-> <<c[1] + Directions[i][1], c[2] + Directions[i][2]>>],
                  traversable)

get_neighbors_in(m, c) ==
    LET traversable(n) == is_valid_in(m, n)
    IN  SelectSeq([i \in 1..4 |-> <<c[1] + Directions[i][1], c[2] + Directions[i][2]>>],
                  traversable)

get_neighbors(c) == get_neighbors_in(RobotMap, c)

\* a slip in _reconstruct_path: the reversal is left out
RECURSIVE reconstruct_path_M(_, _)
reconstruct_path_M(came_from, current) ==
    IF current \in DOMAIN came_from
    THEN <<current>> \o reconstruct_path_M(came_from, came_from[current])
    ELSE <<current>>

\* PathPlanner._reconstruct_path: parent links from the goal back, reversed
RECURSIVE reconstruct_path(_, _)
reconstruct_path(came_from, current) ==
    IF current \in DOMAIN came_from
    THEN Append(reconstruct_path(came_from, came_from[current]), current)
    ELSE <<current>>

\* a slip in line 75: a neighbour is taken again when its score is no worse
RECURSIVE relax_M(_, _, _, _)
relax_M(st, current, nbrs, goal) ==
    IF nbrs = <<>> THEN st
    ELSE LET n == Head(nbrs)
             tentative == st.g[current] + distance_to(current, n)
             better == IF n \in DOMAIN st.g THEN tentative <= st.g[n] ELSE TRUE
             st1 == IF better
                    THEN [open |-> st.open \cup {n},
                          came |-> (n :> current) @@ st.came,
                          g |-> (n :> tentative) @@ st.g,
                          f |-> (n :> (tentative + distance_to(n, goal))) @@ st.f]
                    ELSE st
         IN  relax_M(st1, current, Tail(nbrs), goal)

\* one pass of the loop over the neighbours of `current` (lines 72-81)
RECURSIVE relax(_, _, _, _)
relax(st, current, nbrs, goal) ==
    IF nbrs = <<>> THEN st
    ELSE LET n == Head(nbrs)
             tentative == st.g[current] + distance_to(current, n)
             better == IF n \in DOMAIN st.g THEN tentative < st.g[n] ELSE TRUE
             st1 == IF better
                    THEN [open |-> st.open \cup {n},
                          came |-> (n :> current) @@ st.came,
                          g |-> (n :> tentative) @@ st.g,
                          f |-> (n :> (tentative + distance_to(n, goal))) @@ st.f]
                    ELSE st
         IN  relax(st1, current, Tail(nbrs), goal)

\* a slip in line 63: any open cell is taken, not one of least f
MinF_M(st) == st.open

\* the cells min(open_set, key=f_score) may return: any of the minimal ones
MinF(st) == {c \in st.open : \A d \in st.open : st.f[c] <= st.f[d]}

\* the while loop of _a_star; the results over every order of breaking ties.
\* <<>> stands for None (no path found)
RECURSIVE a_star_loop_in(_, _, _)
a_star_loop_in(m, st, goal) ==
    IF st.open = {} THEN {<<>>}
    ELSE UNION { IF current = goal
                 THEN {reconstruct_path(st.came, current)}
                 ELSE a_star_loop_in(m, relax([st EXCEPT !.open = st.open \ {current}],
                                              current, get_neighbors_in(m, current), goal),
                                     goal)
                 : current \in MinF(st) }

a_star_loop(st, goal) == a_star_loop_in(RobotMap, st, goal)

\* _a_star on the map m
a_star_in(m, start, goal) ==
    a_star_loop_in(m, [open |-> {start},
                       came |-> [c \in {} |-> start],
                       g |-> (start :> 0),
                       f |-> (start :> distance_to(start, goal))], goal)

a_star(start, goal) == a_star_in(RobotMap, start, goal)

\* the threshold of _smooth_path, 0.1 radian, in milliradians
AngleThreshold == 100

\* the for loop of _smooth_path from index i on
RECURSIVE smooth_from(_, _, _, _)
smooth_from(raw_path, i, smoothed, current_angle) ==
    IF i > Len(raw_path) THEN smoothed
    ELSE LET prev == smoothed[Len(smoothed)]
             current == raw_path[i]
             desired_angle == atan2(current[2] - prev[2], current[1] - prev[1])
         IN  IF Abs(desired_angle - current_angle) > AngleThreshold
             THEN smooth_from(raw_path, i + 1, Append(smoothed, current), desired_angle)
             ELSE smooth_from(raw_path, i + 1, smoothed, current_angle)

\* a slip in _smooth_path: lines 121-122, which keep the last waypoint, are missing
smooth_path_M(raw_path) ==
    IF raw_path = <<>> THEN raw_path
    ELSE smooth_from(raw_path, 2, <<raw_path[1]>>, 0)

smooth_path(raw_path) ==
    IF raw_path = <<>> THEN raw_path
    ELSE LET smoothed == smooth_from(raw_path, 2, <<raw_path[1]>>, 0)
         IN  IF raw_path[Len(raw_path)] # smoothed[Len(smoothed)]
             THEN Append(smoothed, raw_path[Len(raw_path)])
             ELSE smoothed

\* PathPlanner.plan_path: the smoothed paths it can return; the empty
\* sequence stands for the NavigationError "No path found"
plan_path(start, end) == {smooth_path(p) : p \in a_star(start, end)}

\* the cells of the grid
GridCells == (0..(Width - 1)) \X (0..(Height - 1))

\* plan_path from every cell the robot can stand on to every named location
PathTable ==
    {<<c, name, plan_path(c, MapLocations[name])>> : c \in GridCells, name \in LocationNames}

PathsTo(c, name) == (CHOOSE t \in PathTable : t[1] = c /\ t[2] = name)[3]

\* Map.get_position on the locations locs, a function from names to poses
get_position_in(locs, name) ==
    IF name \in DOMAIN locs
    THEN [ok |-> TRUE, pos |-> locs[name]]
    ELSE [ok |-> FALSE, pos |-> <<0, 0>>]

\* a slip in line 24: max instead of min
RECURSIVE nearest_of_in_M(_, _, _, _)
nearest_of_in_M(locs, remaining, current_pos, best) ==
    IF remaining = <<>> THEN best
    ELSE LET d == Head(remaining)
         IN  IF distance_to(current_pos, get_position_in(locs, d).pos)
                  > distance_to(current_pos, get_position_in(locs, best).pos)
             THEN nearest_of_in_M(locs, Tail(remaining), current_pos, d)
             ELSE nearest_of_in_M(locs, Tail(remaining), current_pos, best)

\* min(remaining, key=distance): the first of the nearest, in list order
RECURSIVE nearest_of_in(_, _, _, _)
nearest_of_in(locs, remaining, current_pos, best) ==
    IF remaining = <<>> THEN best
    ELSE LET d == Head(remaining)
         IN  IF distance_to(current_pos, get_position_in(locs, d).pos)
                  < distance_to(current_pos, get_position_in(locs, best).pos)
             THEN nearest_of_in(locs, Tail(remaining), current_pos, d)
             ELSE nearest_of_in(locs, Tail(remaining), current_pos, best)

nearest_of(remaining, current_pos, best) ==
    nearest_of_in(MapLocations, remaining, current_pos, best)

Remove(seq, x) ==
    LET i == CHOOSE k \in 1..Len(seq) : seq[k] = x /\ \A j \in 1..(k - 1) : seq[j] # x
    IN  SubSeq(seq, 1, i - 1) \o SubSeq(seq, i + 1, Len(seq))

RECURSIVE route_from_in(_, _, _)
route_from_in(locs, remaining, current_pos) ==
    IF remaining = <<>> THEN <<>>
    ELSE LET nearest == nearest_of_in(locs, Tail(remaining), current_pos, Head(remaining))
         IN  <<nearest>> \o route_from_in(locs, Remove(remaining, nearest),
                                          get_position_in(locs, nearest).pos)

route_from(remaining, current_pos) == route_from_in(MapLocations, remaining, current_pos)

\* PathPlanner.plan_multi_drop_route: the key function raises NavigationError
\* on a destination the map does not know
plan_multi_drop_route_in(locs, destinations) ==
    IF destinations = <<>> THEN [ok |-> TRUE, route |-> <<>>]
    ELSE IF \E i \in 1..Len(destinations) : ~get_position_in(locs, destinations[i]).ok
         THEN [ok |-> FALSE, route |-> <<>>]
         ELSE [ok |-> TRUE, route |-> route_from_in(locs, destinations, <<0, 0>>)]

plan_multi_drop_route(destinations) == plan_multi_drop_route_in(MapLocations, destinations)

\* the destinations a scanned code can name
Destinations == {q.destination : q \in {c \in QRCodes : validate_qr_data(c)}}

\* the key lists destinations_map can have: no destination twice
KeyLists ==
    {ks \in UNION {[1..n -> Destinations] : n \in 0..Cardinality(Destinations)} :
        \A i, j \in 1..Len(ks) : i # j => ks[i] # ks[j]}

\* plan_multi_drop_route for every key list
RouteTable == {<<ks, plan_multi_drop_route(ks)>> : ks \in KeyLists}

RouteOf(ks) == (CHOOSE t \in RouteTable : t[1] = ks)[2]


\* ------------------------------------------------------------------------
\* BoxManager
\* ------------------------------------------------------------------------
\* a slip in the capacity check: one box too many is accepted
can_accept_more_boxes_M(bs) == Len(bs) <= MAX_BOXES

can_accept_more_boxes(bs) == Len(bs) < MAX_BOXES

has_boxes(bs) == Len(bs) > 0

\* destinations_map is a dict: its entries in insertion order
HasKey(dmap, d) == \E i \in 1..Len(dmap) : dmap[i].dest = d

\* list(self.destinations_map.keys())
RECURSIVE get_destinations(_)
get_destinations(dmap) ==
    IF dmap = <<>> THEN <<>>
    ELSE <<Head(dmap).dest>> \o get_destinations(Tail(dmap))

get_boxes_for_destination(dmap, d) ==
    IF HasKey(dmap, d)
    THEN dmap[CHOOSE i \in 1..Len(dmap) : dmap[i].dest = d].boxes
    ELSE <<>>

\* a slip in lines 48-50: the list of the destination is started afresh
MapAppend_M(dmap, box) ==
    IF HasKey(dmap, box.destination)
    THEN [i \in 1..Len(dmap) |->
            IF dmap[i].dest = box.destination
            THEN [dmap[i] EXCEPT !.boxes = <<box>>]
            ELSE dmap[i]]
    ELSE Append(dmap, [dest |-> box.destination, boxes |-> <<box>>])

\* lines 48-50 of add_box: the entry of the destination index
MapAppend(dmap, box) ==
    IF HasKey(dmap, box.destination)
    THEN [i \in 1..Len(dmap) |->
            IF dmap[i].dest = box.destination
            THEN [dmap[i] EXCEPT !.boxes = Append(@, box)]
            ELSE dmap[i]]
    ELSE Append(dmap, [dest |-> box.destination, boxes |-> <<box>>])

\* BoxManager.add_box: the inventory after the call; it returns None
add_box(inv, box) ==
    IF can_accept_more_boxes(inv.boxes)
    THEN [boxes |-> Append(inv.boxes, box), dmap |-> MapAppend(inv.dmap, box)]
    ELSE inv

\* a slip in remove_delivered_boxes: the key is kept, with an empty list
remove_delivered_boxes_M(inv, d) ==
    LET keep(b) == b.destination # d
    IN  [boxes |-> SelectSeq(inv.boxes, keep),
         dmap |-> [i \in 1..Len(inv.dmap) |->
                     IF inv.dmap[i].dest = d
                     THEN [inv.dmap[i] EXCEPT !.boxes = <<>>]
                     ELSE inv.dmap[i]]]

\* BoxManager.remove_delivered_boxes
remove_delivered_boxes(inv, d) ==
    LET keep(b) == b.destination # d
        other(e) == e.dest # d
    IN  [boxes |-> SelectSeq(inv.boxes, keep), dmap |-> SelectSeq(inv.dmap, other)]


\* ------------------------------------------------------------------------
\* State
\* ------------------------------------------------------------------------
VARIABLES
    pc,                \* where the control flow of main() stands
    current_position,  \* Robot.current_position, a grid cell
    motors,            \* what the chassis motors were last told
    route,             \* handle_deliveries: destinations still to visit
    path,              \* navigate_to: waypoints still to move to
    todo,              \* deliver_boxes: boxes still to place
    box_info,          \* handle_pickup: the record built from the scan
    err,               \* the exception main_loop handed to handle_error
    raised,            \* the exceptions raised in this tick, in order
    rlog,              \* the steps handle_error has performed, in order
    placed,            \* the boxes place_box was called for in this tick
    down,              \* the components whose shutdown() has run
    boxes,             \* BoxManager.boxes
    destinations_map,  \* BoxManager.destinations_map
    inv_call,          \* the last BoxManager call and what it returned
    transport,         \* RoboticArm.transport is set (the serial port is open)
    future,            \* ArmProtocol.future
    buffer,            \* ArmProtocol.buffer, as complete lines
    wire,              \* lines the arm has sent, not yet handed to data_received
    dev,               \* commands the arm has received and not yet answered
    armCall,           \* the RoboticArm method that is running
    armLeft,           \* commands it still has to send
    armSt,             \* idle, ready to send, waiting for the response, done
    armRet,            \* what the method returned or raised
    unit,              \* a planner, map or sensor call on its own: inputs and result
    polled             \* what the last get_readings showed: clear or obstacle

loopVars == <<pc, current_position, motors, route, path, todo, box_info, err, raised,
              rlog, placed, down>>
invVars == <<boxes, destinations_map, inv_call>>
chanVars == <<transport, future, buffer, wire, dev>>
armVars == <<armCall, armLeft, armSt, armRet>>
vars == <<loopVars, invVars, chanVars, armVars, unit, polled>>

inventory == [boxes |-> boxes, dmap |-> destinations_map]

NoLine == [cur |-> FALSE, err |-> FALSE]
\* the future ArmProtocol is constructed with: pending, but no command's
PlaceholderFuture == [state |-> "pending", request |-> FALSE, result |-> NoLine]
NoCall == [op |-> None, arg |-> None, full |-> FALSE, ret |-> None]

Components == {"arm", "chassis", "camera", "sensors"}
SensorPositions == {"front", "left", "rear"}
\* what an echo can measure: below, at and above the minimum distance
MeasuredValues == {5, 20, 50}
ReadingValues == MeasuredValues \cup {Inf}

\* no call on its own is under way
NoUnit == [op |-> None]

\* the state Robot.__init__ and Robot.initialize leave behind
InitRobot ==
    /\ pc = "check_sensors"
    /\ polled = "none"
    /\ current_position = <<0, 0>>
    /\ motors = "stopped"
    /\ route = <<>>
    /\ path = <<>>
    /\ todo = <<>>
    /\ box_info = NoBox
    /\ err = None
    /\ raised = <<>>
    /\ rlog = <<>>
    /\ placed = <<>>
    /\ down = {}
    /\ boxes = <<>>
    /\ destinations_map = <<>>
    /\ inv_call = NoCall
    /\ transport = TRUE
    /\ future = [state |-> "done", request |-> TRUE, result |-> [cur |-> TRUE, err |-> FALSE]]
    /\ buffer = <<>>
    /\ wire = <<>>
    /\ dev = <<>>
    /\ armCall = None
    /\ armLeft = 0
    /\ armSt = "idle"
    /\ armRet = None

Init == InitRobot /\ unit = NoUnit

\* ------------------------------------------------------------------------
\* The arm's serial channel: RoboticArm._send_command and ArmProtocol
\* ------------------------------------------------------------------------
\* a new command makes every answer still on its way an answer to an older one
Stale(lines) == [i \in 1..Len(lines) |-> [lines[i] EXCEPT !.cur = FALSE]]

Backlog == Len(dev) + Len(wire) + Len(buffer)

\* a slip in _send_command: the response is not awaited
AwaitDone_M(f) == TRUE

\* await asyncio.wait_for(future_response, timeout=2.0) returns or raises
\* only once the future has a result or the wait has timed out
AwaitDone(f) == f.state \in {"done", "cancelled"}

\* the commands each RoboticArm method sends when nothing fails
Commands(call) ==
    CASE call = "pickup" -> 3
      [] call = "place" -> 3
      [] OTHER -> 1

\* what a method does when one of its commands raised ArmError
AfterError(call) ==
    CASE call = "pickup" ->
            [armCall |-> "pickup_home", armLeft |-> 1, armSt |-> "ready", armRet |-> None]
      [] call = "pickup_home" ->
            [armCall |-> None, armLeft |-> 0, armSt |-> "done", armRet |-> "ArmError"]
      [] call = "place" ->
            [armCall |-> None, armLeft |-> 0, armSt |-> "done", armRet |-> "False"]
      [] call = "shutdown" ->
            [armCall |-> None, armLeft |-> 0, armSt |-> "done", armRet |-> "ok"]
      [] OTHER ->
            [armCall |-> None, armLeft |-> 0, armSt |-> "done", armRet |-> "ArmError"]

\* what a method does when one of its commands came back without error
AfterOk(call, left) ==
    IF left > 1
    THEN [armCall |-> call, armLeft |-> left - 1, armSt |-> "ready", armRet |-> None]
    ELSE [armCall |-> None, armLeft |-> 0, armSt |-> "done",
          armRet |-> CASE call = "pickup" -> "True"
                       [] call = "place" -> "True"
                       [] call = "pickup_home" -> "False"
                       [] OTHER -> "ok"]

SetArm(a) ==
    /\ armCall' = a.armCall
    /\ armLeft' = a.armLeft
    /\ armSt' = a.armSt
    /\ armRet' = a.armRet

StartArm(call) ==
    SetArm([armCall |-> call, armLeft |-> Commands(call), armSt |-> "ready", armRet |-> None])

\* _send_command up to the await: the guard, the new future, the write
ArmSend ==
    /\ UNCHANGED <<unit, polled>>
    /\ armSt = "ready"
    /\ IF ~transport
       THEN /\ SetArm(AfterError(armCall))
            /\ UNCHANGED chanVars
       ELSE /\ future' = [state |-> "pending", request |-> TRUE, result |-> NoLine]
            /\ dev' = Append(Stale(dev), [cur |-> TRUE])
            /\ wire' = Stale(wire)
            /\ buffer' = Stale(buffer)
            /\ armSt' = "wait"
            /\ UNCHANGED <<transport, armCall, armLeft, armRet>>
    /\ UNCHANGED <<loopVars, invVars>>

\* _send_command after the await: the response, an "error" response, a timeout
ArmAwait ==
    /\ UNCHANGED <<unit, polled>>
    /\ armSt = "wait"
    /\ AwaitDone(future)
    /\ IF future.state = "done" /\ ~future.result.err
       THEN SetArm(AfterOk(armCall, armLeft))
       ELSE SetArm(AfterError(armCall))
    /\ UNCHANGED <<loopVars, invVars, chanVars>>

\* wait_for gives up after 2 seconds and cancels the future
ArmTimeout ==
    /\ UNCHANGED <<unit, polled>>
    /\ armSt = "wait"
    /\ future.state = "pending"
    /\ Backlog <= MaxBacklog
    /\ future' = [future EXCEPT !.state = "cancelled"]
    /\ UNCHANGED <<loopVars, invVars, armVars, transport, buffer, wire, dev>>

\* the arm answers its oldest unanswered command with one line
DevRespond ==
    /\ UNCHANGED <<unit, polled>>
    /\ dev # <<>>
    /\ \E e \in BOOLEAN : wire' = Append(wire, [cur |-> Head(dev).cur, err |-> e])
    /\ dev' = Tail(dev)
    /\ UNCHANGED <<loopVars, invVars, armVars, transport, future, buffer>>

\* ArmProtocol.data_received with a chunk of n lines: one line is split off
data_received(n) ==
    LET buf == buffer \o SubSeq(wire, 1, n)
        line == Head(buf)
    IN  /\ buffer' = Tail(buf)
        /\ wire' = SubSeq(wire, n + 1, Len(wire))
        /\ future' = IF future.state = "pending"
                     THEN [future EXCEPT !.state = "done", !.result = line]
                     ELSE future

DataReceived ==
    /\ UNCHANGED <<unit, polled>>
    /\ transport
    /\ wire # <<>>
    /\ \E n \in 1..Min(MaxChunk, Len(wire)) : data_received(n)
    /\ UNCHANGED <<loopVars, invVars, armVars, transport, dev>>


\* ------------------------------------------------------------------------
\* Robot: the mission loop
\* ------------------------------------------------------------------------
\* robot.py imports no asyncio: the name is unbound where it is used
AsyncioImported == FALSE

\* any(distance < min_distance for distance in sensor_data.values())
ObstacleIn(readings) == \E p \in SensorPositions : readings[p] < MinDistance

\* the mapping get_readings returned, as far as the obstacle test sees it
poll_result(readings) == IF ObstacleIn(readings) THEN "obstacle" ELSE "clear"

\* an exception leaves the try block of main_loop
Raise(kind) ==
    /\ raised' = Append(raised, kind)
    /\ err' = kind
    /\ pc' = "handle_error"

\* a slip in handle_obstacle: the pause is left out and the caller goes on
handle_obstacle_M(after, sofar) ==
    /\ motors' = "stopped"
    /\ pc' = after /\ raised' = sofar /\ UNCHANGED err

\* Robot.handle_obstacle, called where the caller then goes on to `after`:
\* chassis.stop(), then asyncio.sleep(1)
handle_obstacle(after, sofar) ==
    /\ motors' = "stopped"
    /\ IF AsyncioImported
       THEN pc' = after /\ raised' = sofar /\ UNCHANGED err
       ELSE pc' = "handle_error" /\ raised' = Append(sofar, "NameError")
                                 /\ err' = "NameError"

\* Robot.check_sensors once get_readings has returned `readings`
check_sensors_on(readings) ==
    /\ pc = "check_sensors"
    /\ polled' = poll_result(readings)
    /\ rlog' = <<>>
    /\ placed' = <<>>
    /\ IF ObstacleIn(readings)
       THEN /\ handle_obstacle("branch", <<>>)
       ELSE /\ pc' = "branch"
            /\ err' = None
            /\ raised' = <<>>
            /\ UNCHANGED motors
    /\ UNCHANGED <<current_position, route, path, todo, box_info, down>>
    /\ UNCHANGED <<invVars, chanVars, armVars>>

\* Robot.check_sensors, the first statement of a tick
CheckSensors ==
    /\ UNCHANGED unit
    /\ \E readings \in [SensorPositions -> ReadingValues] : check_sensors_on(readings)

\* a slip in the priority order: delivery whenever a box is held
branch_target_M(bs) ==
    IF has_boxes(bs) THEN "deliveries" ELSE "scan"

\* main_loop lines 44-47: pickup below capacity, else delivery if any box
branch_target(bs) ==
    IF can_accept_more_boxes(bs) THEN "scan"
    ELSE IF has_boxes(bs) THEN "deliveries"
    ELSE "sleep"

Branch ==
    /\ UNCHANGED <<unit, polled>>
    /\ pc = "branch"
    /\ pc' = branch_target(boxes)
    /\ UNCHANGED <<current_position, motors, route, path, todo, box_info, err, raised,
                   rlog, placed, down>>
    /\ UNCHANGED <<invVars, chanVars, armVars>>

\* handle_pickup up to the call of arm.pickup_box
Scan ==
    /\ UNCHANGED <<unit, polled>>
    /\ pc = "scan"
    /\ \E qr_data \in ScanResults :
          IF qr_data = NoQR
          THEN /\ pc' = "sleep"
               /\ UNCHANGED <<box_info, armVars, err, raised>>
          ELSE IF create_box_info_raises(qr_data)
               THEN /\ Raise("OverflowError")
                    /\ UNCHANGED <<box_info, armVars>>
          ELSE /\ box_info' = create_box_info(qr_data)
               /\ UNCHANGED <<err, raised>>
               /\ IF box_info' = NoBox
                  THEN pc' = "sleep" /\ UNCHANGED armVars
                  ELSE pc' = "pickup" /\ StartArm("pickup")
    /\ UNCHANGED <<current_position, motors, route, path, todo, rlog, placed, down>>
    /\ UNCHANGED <<invVars, chanVars>>

\* a slip in the pickup condition: the result of pickup_box is not looked at
grasp_ok_M(ret) == ret \in {"True", "False"}

\* `box_info and await self.arm.pickup_box()`, box_info being a record
grasp_ok(ret) == ret = "True"

\* handle_pickup after arm.pickup_box returned or raised
PickupReturn ==
    /\ IF armRet = "ArmError"
       THEN /\ Raise("ArmError")
            /\ UNCHANGED invVars
       ELSE /\ pc' = "sleep"
            /\ UNCHANGED <<err, raised>>
            /\ IF grasp_ok(armRet)
               THEN /\ boxes' = add_box(inventory, box_info).boxes
                    /\ destinations_map' = add_box(inventory, box_info).dmap
                    /\ inv_call' = [op |-> "add_box", arg |-> box_info.id,
                                    full |-> ~can_accept_more_boxes(boxes), ret |-> None]
               ELSE UNCHANGED invVars
    /\ UNCHANGED <<current_position, motors, route, path, todo, box_info, rlog, placed,
                   down>>
    /\ UNCHANGED chanVars

\* main_loop line 49: await asyncio.sleep(0.1)
TickDelay ==
    /\ UNCHANGED <<unit, polled>>
    /\ pc = "sleep"
    /\ IF AsyncioImported
       THEN pc' = "check_sensors" /\ UNCHANGED <<err, raised>>
       ELSE Raise("NameError")
    /\ UNCHANGED <<current_position, motors, route, path, todo, box_info, rlog, placed,
                   down>>
    /\ UNCHANGED <<invVars, chanVars, armVars>>

\* handle_deliveries lines 73-74: the route over the held destinations
HandleDeliveries ==
    /\ UNCHANGED <<unit, polled>>
    /\ pc = "deliveries"
    /\ LET r == RouteOf(get_destinations(destinations_map))
       IN  IF ~r.ok
           THEN Raise("NavigationError") /\ UNCHANGED route
           ELSE /\ route' = r.route
                /\ pc' = IF r.route = <<>> THEN "sleep" ELSE "navigate"
                /\ UNCHANGED <<err, raised>>
    /\ UNCHANGED <<current_position, motors, path, todo, box_info, rlog, placed, down>>
    /\ UNCHANGED <<invVars, chanVars, armVars>>

\* navigate_to: the path to the next destination of the route; a
\* NavigationError is caught there and handed to handle_obstacle
NavigateTo ==
    /\ UNCHANGED <<unit, polled>>
    /\ pc = "navigate"
    /\ LET target == get_position(Head(route))
       IN  \E p \in (IF target.ok THEN PathsTo(current_position, Head(route)) ELSE {<<>>}) :
              IF p = <<>>
              THEN /\ handle_obstacle("deliver", Append(raised, "NavigationError"))
                   /\ UNCHANGED path
              ELSE /\ path' = p
                   /\ pc' = "move"
                   /\ UNCHANGED <<err, raised, motors>>
    /\ UNCHANGED <<current_position, route, todo, box_info, rlog, placed, down>>
    /\ UNCHANGED <<invVars, chanVars, armVars>>

\* move_to_waypoint for the next waypoint of the path
MoveToWaypoint ==
    /\ UNCHANGED <<unit, polled>>
    /\ pc = "move"
    /\ current_position' = Head(path)
    /\ motors' = "moving"
    /\ path' = Tail(path)
    /\ pc' = IF Tail(path) = <<>> THEN "deliver" ELSE "move"
    /\ UNCHANGED <<route, todo, box_info, err, raised, rlog, placed, down>>
    /\ UNCHANGED <<invVars, chanVars, armVars>>

\* the destination after this one, or the end of handle_deliveries
NextDestination ==
    /\ route' = Tail(route)
    /\ pc' = IF Tail(route) = <<>> THEN "sleep" ELSE "navigate"

\* deliver_boxes lines 82-85
DeliverBoxes ==
    /\ UNCHANGED <<unit, polled>>
    /\ pc = "deliver"
    /\ todo' = get_boxes_for_destination(destinations_map, Head(route))
    /\ IF todo' = <<>>
       THEN NextDestination
       ELSE pc' = "place" /\ UNCHANGED route
    /\ UNCHANGED <<current_position, motors, path, box_info, err, raised, rlog, placed,
                   down>>
    /\ UNCHANGED <<invVars, chanVars, armVars>>

\* the value robot.py hands to place_box: a Position, no (x, y, z) tuple
AsPosition(c) == [type |-> "Position", x |-> c[1], y |-> c[2], theta |-> 0]

\* `x, y, z = position` in _move_to_position: only a 3-sequence unpacks
Unpacks(position) == position.type = "tuple"

\* deliver_boxes lines 88-95: the next place_box call, or the removal
PlaceBox ==
    /\ UNCHANGED <<unit, polled>>
    /\ pc = "place"
    /\ IF todo = <<>>
       THEN /\ boxes' = remove_delivered_boxes(inventory, Head(route)).boxes
            /\ destinations_map' = remove_delivered_boxes(inventory, Head(route)).dmap
            /\ inv_call' = [op |-> "remove_delivered_boxes", arg |-> Head(route),
                            full |-> ~can_accept_more_boxes(boxes), ret |-> None]
            /\ NextDestination
            /\ UNCHANGED <<placed, err, raised, armVars>>
       ELSE /\ placed' = Append(placed, [id |-> Head(todo).id, dest |-> Head(route)])
            /\ UNCHANGED <<invVars, route>>
            /\ IF Unpacks(AsPosition(get_position(Head(route)).pos))
               THEN /\ pc' = "placing"
                    /\ StartArm("place")
                    /\ UNCHANGED <<err, raised>>
               ELSE /\ Raise("TypeError")
                    /\ UNCHANGED armVars
    /\ UNCHANGED <<current_position, motors, path, todo, box_info, rlog, down>>
    /\ UNCHANGED chanVars


\* deliver_boxes lines 89-92: place_box returned True or False
PlaceReturn ==
    /\ pc' = "place"
    /\ todo' = Tail(todo)
    /\ UNCHANGED <<current_position, motors, route, path, box_info, err, raised, rlog,
                   placed, down>>
    /\ UNCHANGED <<invVars, chanVars>>

\* ------------------------------------------------------------------------
\* PathPlanner.plan_path on its own: any small map, start cell and goal cell
\* ------------------------------------------------------------------------
robotVars == <<loopVars, invVars, chanVars, armVars, polled>>

CellsOf(w, h) == (0..(w - 1)) \X (0..(h - 1))

\* the sizes of the grids
UnitSizes == {wh \in (1..MaxSide) \X (1..MaxSide) : wh[1] * wh[2] <= MaxCells}

UnitMaps ==
    UNION {{[width |-> wh[1], height |-> wh[2], obstacles |-> o] :
               o \in {x \in SUBSET CellsOf(wh[1], wh[2]) : Cardinality(x) <= MaxObstacles}}
           : wh \in UnitSizes}

\* a cell outside every grid, next to the cell (0, 0)
OutsideCells == {<<-1, 0>>}

\* start and goal: any cell of the grid, free or not, or a cell outside it
PlanInputs ==
    UNION {{[op |-> "plan_path", done |-> FALSE, map |-> m, start |-> s, goal |-> g,
             found |-> <<>>, ok |-> FALSE, out |-> <<>>] :
               s \in CellsOf(m.width, m.height) \cup OutsideCells,
               g \in CellsOf(m.width, m.height) \cup OutsideCells}
           : m \in UnitMaps}

InitPlan == InitRobot /\ unit \in PlanInputs

\* plan_path lines 34-40: the path of _a_star, NavigationError when there is
\* none, else the smoothed path
PlanPathCall ==
    /\ unit.op = "plan_path"
    /\ ~unit.done
    /\ \E p \in a_star_in(unit.map, unit.start, unit.goal) :
          unit' = [unit EXCEPT !.done = TRUE, !.found = p, !.ok = (p # <<>>),
                               !.out = smooth_path(p)]
    /\ UNCHANGED robotVars

NextPlan == PlanPathCall

SpecPlan == InitPlan /\ [][NextPlan]_vars


\* ------------------------------------------------------------------------
\* PathPlanner.plan_multi_drop_route on its own: any poses of three named
\* locations, any list of distinct names of them
\* ------------------------------------------------------------------------
RouteNames == {"A", "B", "C"}

RoutePoses == (0..MaxRouteX) \X (0..MaxRouteY)

DistinctLists(names) ==
    {ks \in UNION {[1..n -> names] : n \in 0..Cardinality(names)} :
        \A i, j \in 1..Len(ks) : i # j => ks[i] # ks[j]}

RouteInputs ==
    {[op |-> "plan_multi_drop_route", done |-> FALSE, locations |-> l,
      destinations |-> ds, ok |-> FALSE, out |-> <<>>] :
        l \in [RouteNames -> RoutePoses], ds \in DistinctLists(RouteNames)}

InitRoute == InitRobot /\ unit \in RouteInputs

PlanRouteCall ==
    /\ unit.op = "plan_multi_drop_route"
    /\ ~unit.done
    /\ LET r == plan_multi_drop_route_in(unit.locations, unit.destinations)
       IN  unit' = [unit EXCEPT !.done = TRUE, !.ok = r.ok, !.out = r.route]
    /\ UNCHANGED robotVars

NextRoute == PlanRouteCall

SpecRoute == InitRoute /\ [][NextRoute]_vars


\* ------------------------------------------------------------------------
\* Map.is_valid_position on its own: any grid of the sizes above and any
\* pose on or around it, with whole and half coordinates
\* ------------------------------------------------------------------------
\* the test reads one cell of the grid: grids with at most one obstacle show
\* both of its values
ValidMaps == {m \in UnitMaps : Cardinality(m.obstacles) <= 1}

HalvesAround(side) == (-(2 * MaxOut))..(2 * (side + MaxOut) - 1)

ValidInputs ==
    UNION {{[op |-> "is_valid_position", done |-> FALSE, map |-> m,
             pose |-> <<hx, hy>>, out |-> FALSE] :
               hx \in HalvesAround(m.width), hy \in HalvesAround(m.height)}
           : m \in ValidMaps}

InitValid == InitRobot /\ unit \in ValidInputs

IsValidPositionCall ==
    /\ unit.op = "is_valid_position"
    /\ ~unit.done
    /\ unit' = [unit EXCEPT !.done = TRUE,
                            !.out = is_valid_pose_in(unit.map, unit.pose)]
    /\ UNCHANGED robotVars

NextValid == IsValidPositionCall

SpecValid == InitValid /\ [][NextValid]_vars


\* ------------------------------------------------------------------------
\* Map._load_map on its own: the map file as the JSON value it holds
\* ------------------------------------------------------------------------
\* a value under a key of a JSON object: no such key, null, a string that is
\* no number, or an integer
IntField(n) == [k |-> "int", v |-> n]
BadFields == {[k |-> kind, v |-> 0] : kind \in {"absent", "null", "string"}}

\* an element of the "obstacles" list: an object with x and y, or a list.
\* x is left of the grid or in it, y in it or below it; int(obs['x']) is
\* evaluated first, so under an x that raises y is never read
ObstacleEntries ==
    {[k |-> "object", x |-> fx, y |-> IntField(0)] : fx \in BadFields}
    \cup {[k |-> "object", x |-> IntField(n), y |-> fy] :
             n \in {-1, 0}, fy \in BadFields \cup {IntField(0), IntField(Height)}}
    \cup {[k |-> "list", x |-> IntField(0), y |-> IntField(0)]}

\* the value under "obstacles": no such key, a number, or a list of entries
ObstacleValues ==
    {[k |-> kind, items |-> <<>>] : kind \in {"absent", "number"}}
    \cup {[k |-> "list", items |-> it] :
             it \in UNION {[1..n -> ObstacleEntries] : n \in 0..MaxListed}}

\* the value under "locations": no such key, or one name with a list, with an
\* object that lacks y, with an object whose x is a string, or with numbers
LocationValues == {"absent", "entry_list", "entry_no_y", "entry_string_x", "entry_ok"}

\* the map file: not there, no JSON, a JSON list, or a JSON object
MapFiles ==
    {[k |-> kind, obstacles |-> [k |-> "absent", items |-> <<>>],
      locations |-> "absent"] : kind \in {"missing", "no_json", "list"}}
    \cup {[k |-> "object", obstacles |-> o, locations |-> l] :
             o \in ObstacleValues, l \in LocationValues}

\* what int(obs[key]) does: the integer, or the exception it raises
int_of_field(f) ==
    CASE f.k = "int" -> "ok"
      [] f.k = "absent" -> "KeyError"
      [] f.k = "null" -> "TypeError"
      [] OTHER -> "ValueError"

\* lines 24-28 from entry i on: the cells set so far, or the first exception
RECURSIVE load_obstacles(_, _, _)
load_obstacles(items, i, cells) ==
    IF i > Len(items) THEN [exc |-> "ok", cells |-> cells]
    ELSE LET obs == items[i] IN
         IF obs.k # "object" THEN [exc |-> "TypeError", cells |-> cells]
         ELSE IF int_of_field(obs.x) # "ok"
              THEN [exc |-> int_of_field(obs.x), cells |-> cells]
         ELSE IF int_of_field(obs.y) # "ok"
              THEN [exc |-> int_of_field(obs.y), cells |-> cells]
         ELSE load_obstacles(items, i + 1,
                 IF /\ 0 <= obs.x.v /\ obs.x.v < Width
                    /\ 0 <= obs.y.v /\ obs.y.v < Height
                 THEN cells \cup {<<obs.x.v, obs.y.v>>}
                 ELSE cells)

\* lines 31-33: Position(x=pos['x'], y=pos['y'], theta=0.0) for every entry
load_locations(l) ==
    CASE l = "entry_list" -> "TypeError"
      [] l = "entry_no_y" -> "KeyError"
      [] OTHER -> "ok"

\* the try block of _load_map: the exception that leaves it, or "ok"
load_body(file) ==
    CASE file.k = "missing" -> [exc |-> "FileNotFoundError", cells |-> {}]
      [] file.k = "no_json" -> [exc |-> "ValueError", cells |-> {}]
      [] file.k = "list" -> [exc |-> "AttributeError", cells |-> {}]
      [] OTHER ->
           IF file.obstacles.k = "number" THEN [exc |-> "TypeError", cells |-> {}]
           ELSE LET o == load_obstacles(file.obstacles.items, 1, {}) IN
                IF o.exc # "ok" THEN o
                ELSE [exc |-> load_locations(file.locations), cells |-> o.cells]

\* _load_map: the except clauses of lines 35-40 turn three kinds into
\* NavigationError, any other exception leaves as it is
load_map(file) ==
    LET b == load_body(file) IN
    IF b.exc \in {"FileNotFoundError", "ValueError", "KeyError"}
    THEN [b EXCEPT !.exc = "NavigationError"]
    ELSE b

LoadInputs == {[op |-> "load_map", done |-> FALSE, file |-> f,
                out |-> [exc |-> "ok", cells |-> {}]] : f \in MapFiles}

InitLoad == InitRobot /\ unit \in LoadInputs

LoadMapCall ==
    /\ unit.op = "load_map"
    /\ ~unit.done
    /\ unit' = [unit EXCEPT !.done = TRUE, !.out = load_map(unit.file)]
    /\ UNCHANGED robotVars

SpecLoad == InitLoad /\ [][LoadMapCall]_vars


\* ------------------------------------------------------------------------
\* BoxManager.create_box_info on its own: any set of keys and any quantity
\* ------------------------------------------------------------------------
Quantities ==
    {QInt(n) : n \in 0..MaxQuantity} \cup {QNumStr(n) : n \in 0..MaxQuantity}
    \cup {QStr, QNull, QInf}

RecordInputs ==
    {[op |-> "create_box_info", done |-> FALSE, qr |-> QR(keys, "b1", q, "A"),
      exc |-> None, box |-> NoBox] :
        keys \in SUBSET RequiredFields, q \in Quantities}

InitRecord == InitRobot /\ unit \in RecordInputs

CreateBoxInfoCall ==
    /\ unit.op = "create_box_info"
    /\ ~unit.done
    /\ unit' = IF create_box_info_raises(unit.qr)
               THEN [unit EXCEPT !.done = TRUE, !.exc = "OverflowError"]
               ELSE [unit EXCEPT !.done = TRUE, !.box = create_box_info(unit.qr)]
    /\ UNCHANGED robotVars

SpecRecord == InitRecord /\ [][CreateBoxInfoCall]_vars


\* ------------------------------------------------------------------------
\* PathPlanner._a_star step by step: one action per turn of the while loop
\* ------------------------------------------------------------------------
\* lines 53-60: the search state before the loop
search_start(start, goal) ==
    [open |-> {start},
     came |-> [c \in {} |-> start],
     g |-> (start :> 0),
     f |-> (start :> distance_to(start, goal))]

SearchInputs ==
    UNION {{[map |-> m, start |-> s, goal |-> g] :
               s \in CellsOf(m.width, m.height) \cup OutsideCells,
               g \in CellsOf(m.width, m.height) \cup OutsideCells}
           : m \in UnitMaps}

\* before the call nothing is being searched
InitSearch == InitRobot /\ unit = [op |-> "plan_path"]

\* line 34: plan_path hands its start and its goal to _a_star
AStarCall ==
    /\ unit.op = "plan_path"
    /\ \E call \in SearchInputs :
          unit' = [op |-> "a_star", done |-> FALSE, ok |-> FALSE, map |-> call.map,
                   start |-> call.start, goal |-> call.goal,
                   st |-> search_start(call.start, call.goal),
                   expansions |-> 0, found |-> <<>>]
    /\ UNCHANGED robotVars

\* lines 62-81: a cell of least f is taken; the goal ends the search, any
\* other cell is removed from the open set and its neighbours are looked at
Expand ==
    /\ unit.op = "a_star"
    /\ ~unit.done
    /\ unit.st.open # {}
    /\ \E current \in MinF(unit.st) :
          IF current = unit.goal
          THEN unit' = [unit EXCEPT !.done = TRUE, !.ok = TRUE,
                                    !.found = reconstruct_path(unit.st.came, current)]
          ELSE unit' = [unit EXCEPT !.expansions = @ + 1, !.st =
                          relax([unit.st EXCEPT !.open = unit.st.open \ {current}],
                                current, get_neighbors_in(unit.map, current), unit.goal)]
    /\ UNCHANGED robotVars

\* lines 83-85: the open set is empty, None is returned
NoPathFound ==
    /\ unit.op = "a_star"
    /\ ~unit.done
    /\ unit.st.open = {}
    /\ unit' = [unit EXCEPT !.done = TRUE]
    /\ UNCHANGED robotVars

NextSearch == AStarCall \/ Expand \/ NoPathFound

SpecSearch == InitSearch /\ [][NextSearch]_vars


\* ------------------------------------------------------------------------
\* PathPlanner._smooth_path on its own: any list of waypoints, each a
\* Position with theta = 0.0 as _reconstruct_path builds them
\* ------------------------------------------------------------------------
WayCells == (0..MaxWay) \X (0..MaxWay)

SmoothInputs ==
    {[op |-> "smooth_path", done |-> FALSE, waypoints |-> w, out |-> <<>>] :
        w \in UNION {[1..n -> WayCells] : n \in 0..MaxPathLen}}

InitSmooth == InitRobot /\ unit \in SmoothInputs

SmoothPathCall ==
    /\ unit.op = "smooth_path"
    /\ ~unit.done
    /\ unit' = [unit EXCEPT !.done = TRUE, !.out = smooth_path(unit.waypoints)]
    /\ UNCHANGED robotVars

NextSmooth == SmoothPathCall

SpecSmooth == InitSmooth /\ [][NextSmooth]_vars


\* ------------------------------------------------------------------------
\* The sense step of one tick in detail: SensorArray.get_readings runs one
\* measure_distance per sensor, the event loop interleaving them at every
\* await, then check_sensors looks at the mapping
\* ------------------------------------------------------------------------
\* a measure_distance coroutine gather has not started yet
NewTask == [at |-> "created", exc |-> FALSE, ret |-> 0]

SenseInputs ==
    {[op |-> "get_readings", tasks |-> [p \in SensorPositions |-> NewTask],
      st |-> "measuring", readings |-> <<>>]}

InitSense == InitRobot /\ unit \in SenseInputs

\* measure_distance leaves with `ret`: a return, or the except clause of
\* lines 92-94 after an exception of the GPIO
Returned(ret) == [at |-> "returned", exc |-> FALSE, ret |-> ret]

TaskStep(p, next) ==
    /\ unit.op = "get_readings"
    /\ unit.st = "measuring"
    /\ unit' = [unit EXCEPT !.tasks[p] = next]
    /\ UNCHANGED robotVars

\* lines 70-71: the trigger pin goes high, then the 10 microsecond sleep
TriggerPulse ==
    \E p \in SensorPositions :
       /\ unit.op = "get_readings"
       /\ unit.tasks[p].at = "created"
       /\ \/ TaskStep(p, [NewTask EXCEPT !.at = "pulse"])
          \/ TaskStep(p, Returned(Inf))

\* line 72: the trigger pin goes low again
TriggerLow ==
    \E p \in SensorPositions :
       /\ unit.op = "get_readings"
       /\ unit.tasks[p].at = "pulse"
       /\ \/ TaskStep(p, [NewTask EXCEPT !.at = "echo_start"])
          \/ TaskStep(p, Returned(Inf))

\* lines 75-78: the echo pin goes high, or 0.02 s pass first
WaitEchoStart ==
    \E p \in SensorPositions :
       /\ unit.op = "get_readings"
       /\ unit.tasks[p].at = "echo_start"
       /\ \/ TaskStep(p, [NewTask EXCEPT !.at = "echo_end"])
          \/ TaskStep(p, Returned(Inf))

\* lines 81-91: the echo pin goes low and the distance is computed, or
\* 0.02 s pass first
WaitEchoEnd ==
    \E p \in SensorPositions :
       /\ unit.op = "get_readings"
       /\ unit.tasks[p].at = "echo_end"
       /\ \E d \in ReadingValues : TaskStep(p, Returned(d))

\* a slip in the gather: it returns as soon as one measurement is over
gather_done_M(tasks) == \E p \in SensorPositions : tasks[p].at = "returned"

\* asyncio.gather(*tasks, return_exceptions=True) returns once every task has
gather_done(tasks) == \A p \in SensorPositions : tasks[p].at = "returned"

\* get_readings lines 38-44: one entry per key of self.sensors, an exception
\* in place of a distance becoming inf
readings_of(tasks) ==
    [p \in SensorPositions |->
        IF tasks[p].exc THEN Inf ELSE tasks[p].ret]

\* get_readings returns to check_sensors
Gather ==
    /\ unit.op = "get_readings"
    /\ unit.st = "measuring"
    /\ gather_done(unit.tasks)
    /\ unit' = [unit EXCEPT !.st = "gathered", !.readings = readings_of(unit.tasks)]
    /\ UNCHANGED robotVars

\* check_sensors lines 56-58 on the mapping get_readings returned
SenseCheck ==
    /\ unit.op = "get_readings"
    /\ unit.st = "gathered"
    /\ check_sensors_on(unit.readings)
    /\ unit' = [unit EXCEPT !.st = "checked"]

NextSense ==
    \/ TriggerPulse
    \/ TriggerLow
    \/ WaitEchoStart
    \/ WaitEchoEnd
    \/ Gather
    \/ SenseCheck

SpecSense == InitSense /\ [][NextSense]_vars


\* ------------------------------------------------------------------------
\* Robot.handle_error and Robot.shutdown
\* ------------------------------------------------------------------------
\* a slip in the dispatch: the navigation branch reinitializes the sensors
ReinitFor_M(error) ==
    CASE error = "ArmError" -> "arm"
      [] error = "CameraError" -> "camera"
      [] error \in {"SensorError", "NavigationError"} -> "sensors"
      [] OTHER -> None

\* the component handle_error reinitializes for an exception (lines 150-157)
ReinitFor(error) ==
    CASE error = "ArmError" -> "arm"
      [] error = "CameraError" -> "camera"
      [] error = "SensorError" -> "sensors"
      [] OTHER -> None

\* a slip in the except clause of handle_error: the failure is logged only
RecoveryFailed_M(kind) ==
    /\ raised' = Append(raised, kind)
    /\ pc' = "check_sensors"
    /\ SetArm([armCall |-> None, armLeft |-> 0, armSt |-> "idle", armRet |-> None])

\* handle_error lines 158-160: the recovery raised; shutdown() starts with the arm
RecoveryFailed(kind) ==
    /\ raised' = Append(raised, kind)
    /\ pc' = "shutdown"
    /\ StartArm("shutdown")

\* handle_error lines 136-142: chassis.stop(), then arm._home()
HandleError ==
    /\ UNCHANGED <<unit, polled>>
    /\ pc = "handle_error"
    /\ motors' = "stopped"
    /\ rlog' = <<"chassis.stop">>
    /\ pc' = "rec_home"
    /\ StartArm("home")
    /\ UNCHANGED <<current_position, route, path, todo, box_info, err, raised, placed,
                   down>>
    /\ UNCHANGED <<invVars, chanVars>>

\* handle_error after arm._home() returned or raised
HomeReturn ==
    /\ IF armRet = "ok"
       THEN /\ rlog' = Append(rlog, "arm.home")
            /\ pc' = "rec_sensors"
            /\ SetArm([armCall |-> None, armLeft |-> 0, armSt |-> "idle", armRet |-> None])
            /\ UNCHANGED raised
       ELSE /\ RecoveryFailed("ArmError")
            /\ UNCHANGED rlog
    /\ UNCHANGED <<current_position, motors, route, path, todo, box_info, err, placed,
                   down>>
    /\ UNCHANGED <<invVars, chanVars>>

\* handle_error lines 145-147: the sensors are read again
RecSensors ==
    /\ UNCHANGED unit
    /\ pc = "rec_sensors"
    /\ rlog' = Append(rlog, "sensors.get_readings")
    /\ \E readings \in [SensorPositions -> ReadingValues] :
          /\ polled' = poll_result(readings)
          /\ IF ObstacleIn(readings)
             THEN /\ motors' = "stopped"
                  /\ IF AsyncioImported
                     THEN pc' = "rec_reinit" /\ UNCHANGED <<raised, armVars>>
                     ELSE RecoveryFailed("NameError")
             ELSE /\ pc' = "rec_reinit"
                  /\ UNCHANGED <<motors, raised, armVars>>
    /\ UNCHANGED <<current_position, route, path, todo, box_info, err, placed, down>>
    /\ UNCHANGED <<invVars, chanVars>>

\* handle_error returned: main_loop goes round to the next tick
NextTick ==
    /\ pc' = "check_sensors"

\* handle_error lines 150-157: the component of the exception is initialized
RecReinit ==
    /\ UNCHANGED <<unit, polled>>
    /\ pc = "rec_reinit"
    /\ CASE ReinitFor(err) = "arm" ->
              \* RoboticArm.initialize: a new connection and protocol, then _home
              \E connected \in BOOLEAN :
                 IF connected
                 THEN /\ transport' = TRUE
                      /\ future' = PlaceholderFuture
                      /\ buffer' = <<>>
                      /\ pc' = "rec_init"
                      /\ StartArm("init")
                      /\ UNCHANGED <<rlog, raised, wire, dev>>
                 ELSE /\ RecoveryFailed("ArmError")
                      /\ UNCHANGED <<rlog, chanVars>>
         [] ReinitFor(err) \in {"camera", "sensors"} ->
              \E opened \in BOOLEAN :
                 IF opened \/ ReinitFor(err) = "sensors"
                 THEN /\ rlog' = Append(rlog, ReinitFor(err))
                      /\ NextTick
                      /\ UNCHANGED <<raised, chanVars, armVars>>
                 ELSE /\ RecoveryFailed("CameraError")
                      /\ UNCHANGED <<rlog, chanVars>>
         [] OTHER ->
              /\ NextTick
              /\ UNCHANGED <<rlog, raised, chanVars, armVars>>
    /\ UNCHANGED <<current_position, motors, route, path, todo, box_info, err, placed,
                   down>>
    /\ UNCHANGED invVars

\* handle_error after arm.initialize() returned or raised
InitReturn ==
    /\ IF armRet = "ok"
       THEN /\ rlog' = Append(rlog, "arm")
            /\ NextTick
            /\ SetArm([armCall |-> None, armLeft |-> 0, armSt |-> "idle", armRet |-> None])
            /\ UNCHANGED raised
       ELSE /\ RecoveryFailed("ArmError")
            /\ UNCHANGED rlog
    /\ UNCHANGED <<current_position, motors, route, path, todo, box_info, err, placed,
                   down>>
    /\ UNCHANGED <<invVars, chanVars>>

\* RoboticArm.shutdown after its _home(): the transport is closed
ShutdownReturn ==
    /\ transport' = FALSE
    /\ down' = {"arm"}
    /\ pc' = "shutdown_rest"
    /\ SetArm([armCall |-> None, armLeft |-> 0, armSt |-> "idle", armRet |-> None])
    /\ UNCHANGED <<current_position, motors, route, path, todo, box_info, err, raised,
                   rlog, placed>>
    /\ UNCHANGED <<invVars, future, buffer, wire, dev>>

\* a RoboticArm method has returned to the Robot method that awaited it
ArmReturn ==
    /\ UNCHANGED <<unit, polled>>
    /\ armSt = "done"
    /\ CASE pc = "pickup" ->
              /\ PickupReturn
              /\ SetArm([armCall |-> None, armLeft |-> 0, armSt |-> "idle", armRet |-> None])
         [] pc = "placing" ->
              /\ PlaceReturn
              /\ SetArm([armCall |-> None, armLeft |-> 0, armSt |-> "idle", armRet |-> None])
         [] pc = "rec_home" -> HomeReturn
         [] pc = "rec_init" -> InitReturn
         [] pc = "shutdown" -> ShutdownReturn

\* Robot.shutdown lines 34-36, then `raise` out of handle_error and main_loop
ShutdownRest ==
    /\ UNCHANGED <<unit, polled>>
    /\ pc = "shutdown_rest"
    /\ down' = Components
    /\ motors' = "stopped"
    /\ pc' = "raised"
    /\ UNCHANGED <<current_position, route, path, todo, box_info, err, raised, rlog,
                   placed>>
    /\ UNCHANGED <<invVars, chanVars, armVars>>

\* main(): `except Exception` calls robot.shutdown() once more; the closed arm
\* raises "Arm not initialized", which RoboticArm.shutdown swallows
MainExcept ==
    /\ UNCHANGED <<unit, polled>>
    /\ pc = "raised"
    /\ pc' = "exited"
    /\ UNCHANGED <<current_position, motors, route, path, todo, box_info, err, raised,
                   rlog, placed, down>>
    /\ UNCHANGED <<invVars, chanVars, armVars>>

Next ==
    \/ CheckSensors
    \/ Branch
    \/ Scan
    \/ TickDelay
    \/ HandleDeliveries
    \/ NavigateTo
    \/ MoveToWaypoint
    \/ DeliverBoxes
    \/ PlaceBox
    \/ HandleError
    \/ RecSensors
    \/ RecReinit
    \/ ArmReturn
    \/ ShutdownRest
    \/ MainExcept
    \/ ArmSend
    \/ ArmAwait
    \/ ArmTimeout
    \/ DevRespond
    \/ DataReceived

Spec == Init /\ [][Next]_vars


\* ------------------------------------------------------------------------
\* The inventory on its own: any sequence of add_box and
\* remove_delivered_boxes calls on a fresh BoxManager
\* ------------------------------------------------------------------------
AddBoxCall(box) ==
    /\ UNCHANGED <<unit, polled>>
    /\ boxes' = add_box(inventory, box).boxes
    /\ destinations_map' = add_box(inventory, box).dmap
    /\ inv_call' = [op |-> "add_box", arg |-> box.id,
                    full |-> ~can_accept_more_boxes(boxes), ret |-> None]
    /\ UNCHANGED <<loopVars, chanVars, armVars>>

RemoveDeliveredCall(d) ==
    /\ UNCHANGED <<unit, polled>>
    /\ boxes' = remove_delivered_boxes(inventory, d).boxes
    /\ destinations_map' = remove_delivered_boxes(inventory, d).dmap
    /\ inv_call' = [op |-> "remove_delivered_boxes", arg |-> d,
                    full |-> ~can_accept_more_boxes(boxes), ret |-> None]
    /\ UNCHANGED <<loopVars, chanVars, armVars>>

NextInv ==
    \/ \E box \in Boxes : AddBoxCall(box)
    \/ \E d \in Destinations : RemoveDeliveredCall(d)

SpecInv == Init /\ [][NextInv]_vars

\* ------------------------------------------------------------------------
\* The delivery step with an arm whose place_box returns: the inventory is
\* filled by add_box, then one tick runs from check_sensors to the end of
\* handle_deliveries. PlaceBox, the call as robot.py makes it, stays in.
\* ------------------------------------------------------------------------
\* deliver_boxes lines 89-92 when place_box returns True or False
PlaceBoxReturns ==
    /\ UNCHANGED <<unit, polled, armVars>>
    /\ pc = "place"
    /\ todo # <<>>
    /\ PlaceReturn

NextDeliver ==
    \/ (pc = "check_sensors" /\ \E box \in Boxes : AddBoxCall(box))
    \/ CheckSensors
    \/ Branch
    \/ HandleDeliveries
    \/ NavigateTo
    \/ MoveToWaypoint
    \/ DeliverBoxes
    \/ PlaceBox
    \/ PlaceBoxReturns

SpecDeliver == Init /\ [][NextDeliver]_vars


\* ------------------------------------------------------------------------
\* Claims
\* ------------------------------------------------------------------------
Range(seq) == {seq[i] : i \in 1..Len(seq)}

\* C1 (as stated): the inventory never holds more than 4 records, and an
\* add on a full inventory returns false and changes neither the primary
\* collection nor the destination index.
C1_AddOnFullReturnsFalse ==
    /\ Len(boxes) <= MAX_BOXES
    /\ (inv_call.op = "add_box" /\ inv_call.full) => inv_call.ret = "False"

\* C1 (amended): the inventory never holds more than 4 records over any
\* sequence of add_box and remove_delivered_boxes calls, and an add_box on a
\* full inventory returns None (as every add_box does) and changes neither
\* the primary collection nor the destination index.
C1_CapacityNeverExceeded ==
    /\ [](Len(boxes) <= MAX_BOXES)
    /\ [][(inv_call'.op = "add_box" /\ Len(boxes) = MAX_BOXES)
            => /\ boxes' = boxes
               /\ destinations_map' = destinations_map
               /\ inv_call'.ret = None /\ inv_call'.full]_vars

C1_Witness ==
    /\ inv_call.op = "add_box"
    /\ inv_call.full
    /\ Len(boxes) = MAX_BOXES

\* C2: in the pickup step the inventory changes only by appending the record
\* built from this tick's scan, and only when that record is valid and
\* pickup_box returned True; a False or a raised ArmError leaves it as it was.
C2_AddOnlyAfterGrasp ==
    [][(pc \in {"scan", "pickup"} /\ <<boxes, destinations_map>>' # <<boxes, destinations_map>>)
         => /\ pc = "pickup"
            /\ armSt = "done"
            /\ armRet = "True"
            /\ box_info # NoBox
            /\ boxes' = Append(boxes, box_info)]_vars

C2_Witness ==
    /\ pc = "sleep"
    /\ inv_call.op = "add_box"
    /\ Len(boxes) = 2
    /\ boxes[2] = box_info

PickupPcs == {"scan", "pickup"}
DeliveryPcs == {"deliveries", "navigate", "move", "deliver", "place", "placing"}

\* C3: the branch is passed once per tick, right after the sense step; it
\* leads to pickup exactly when fewer than 4 records are held, to delivery
\* exactly when the inventory is full (hence non-empty), to nothing otherwise;
\* pickup and delivery are entered from the branch only, so never both in a tick.
C3_PriorityBranch ==
    [][/\ (pc = "branch" /\ pc' # "branch") =>
             /\ (pc' = "scan") <=> (Len(boxes) < MAX_BOXES)
             /\ (pc' = "deliveries") <=> (Len(boxes) >= MAX_BOXES /\ Len(boxes) > 0)
             /\ (pc' = "sleep") <=> (Len(boxes) >= MAX_BOXES /\ Len(boxes) = 0)
       /\ (pc' = "branch" /\ pc # "branch") => pc = "check_sensors"
       /\ (pc' \in PickupPcs) => pc \in PickupPcs \cup {"branch"}
       /\ (pc' \in DeliveryPcs) => pc \in DeliveryPcs \cup {"branch"}
       /\ (pc' = "deliveries" /\ pc # "deliveries") => ~(Len(boxes) < MAX_BOXES)]_vars

C3_Witness ==
    /\ pc = "deliveries"
    /\ Len(boxes) = MAX_BOXES

\* the failure kinds of utils/exceptions.py
FailureKinds == {"ArmError", "CameraError", "SensorError", "NavigationError"}

\* the component each failure kind is to have reinitialized
ExpectedReinit(kind) ==
    IF kind = "ArmError" THEN <<"arm">>
    ELSE IF kind = "CameraError" THEN <<"camera">>
    ELSE IF kind = "SensorError" THEN <<"sensors">>
    ELSE <<>>

RecoverySteps(kind) ==
    <<"chassis.stop", "arm.home", "sensors.get_readings">> \o ExpectedReinit(kind)

IsPrefix(a, b) == Len(a) <= Len(b) /\ a = SubSeq(b, 1, Len(a))

\* C4: what handle_error has done is always a prefix of: chassis stop, arm
\* home, sensor re-check, then the reinitialization of the component of the
\* failure kind and of no other (none for a navigation failure); when the
\* recovery has returned, all of these steps have been done.
C4_RecoveryOrder ==
    /\ \A kind \in FailureKinds :
          ExpectedReinit(kind) = IF ReinitFor(kind) = None THEN <<>> ELSE <<ReinitFor(kind)>>
    /\ IsPrefix(rlog, RecoverySteps(err))
    /\ (pc = "check_sensors" /\ err # None) => rlog = RecoverySteps(err)

C4_Witness ==
    /\ pc = "check_sensors"
    /\ err = "ArmError"
    /\ rlog = <<"chassis.stop", "arm.home", "sensors.get_readings", "arm">>

RecoveryPcs == {"rec_home", "rec_sensors", "rec_reinit", "rec_init"}
ShutdownPcs == {"shutdown", "shutdown_rest", "raised", "exited"}

C7_NavigationFailurePropagates ==
    (pc = "handle_error" /\ "NavigationError" \in Range(raised))
        => err = "NavigationError"

\* C8: once deliver_boxes is over for a destination for which a placement
\* was attempted, no record for that destination is left in the inventory.
C8_AllPlacedThenCleared ==
    (pc \notin {"place", "placing"})
        => \A i \in 1..Len(placed) : \A j \in 1..Len(boxes) :
              boxes[j].destination # placed[i].dest

\* C9: a command is written to the arm only when no earlier command's
\* future is still pending: its response has arrived or its wait timed out.
C9_OneCommandInFlight ==
    [][(Len(dev') > Len(dev)) => ~(future.state = "pending" /\ future.request)]_vars

C9_Witness ==
    /\ future.state = "pending"
    /\ future.request
    /\ Backlog = 2

\* C10: the line that resolves a command's future is the line the arm sent
\* in answer to that command.
C10_ResponseCorrelated ==
    (future.state = "done" /\ future.request) => future.result.cur


\* the held records with destination d, in the order they were added
HeldFor(bs, d) ==
    LET to_d(b) == b.destination = d
    IN  SelectSeq(bs, to_d)

\* C11: the destination index is the grouping of the primary collection by
\* destination: no key twice, the keys are the destinations of the held
\* records, and each key lists the held records of that destination in the
\* order they were added (so no key has an empty list).
C11_IndexIsGrouping ==
    /\ \A i, j \in 1..Len(destinations_map) :
          destinations_map[i].dest = destinations_map[j].dest => i = j
    /\ {destinations_map[i].dest : i \in 1..Len(destinations_map)}
          = {boxes[j].destination : j \in 1..Len(boxes)}
    /\ \A i \in 1..Len(destinations_map) :
          /\ destinations_map[i].boxes = HeldFor(boxes, destinations_map[i].dest)
          /\ destinations_map[i].boxes # <<>>

C11_Witness ==
    /\ inv_call.op = "remove_delivered_boxes"
    /\ Len(destinations_map) = 2
    /\ Len(boxes) = 3
    /\ boxes[1].destination = boxes[3].destination
    /\ boxes[1].destination # boxes[2].destination

\* C12: remove_delivered_boxes(d) keeps, in order, exactly the records of
\* another destination and exactly the index entries of another key, each
\* entry as it was; with no record for d held it changes neither collection.
C12_RemoveExactlyDestination ==
    [][(inv_call'.op = "remove_delivered_boxes") =>
          LET d == inv_call'.arg
              kept == {j \in 1..Len(boxes) : boxes[j].destination # d}
              keys == {i \in 1..Len(destinations_map) : destinations_map[i].dest # d}
          IN  /\ Len(boxes') = Cardinality(kept)
              /\ \A j \in kept :
                    boxes'[Cardinality({k \in kept : k <= j})] = boxes[j]
              /\ Len(destinations_map') = Cardinality(keys)
              /\ \A i \in keys :
                    destinations_map'[Cardinality({k \in keys : k <= i})]
                       = destinations_map[i]
              /\ (\A j \in 1..Len(boxes) : boxes[j].destination # d)
                    => <<boxes, destinations_map>>' = <<boxes, destinations_map>>]_vars

C12_Witness ==
    /\ inv_call.op = "remove_delivered_boxes"
    /\ inv_call.full
    /\ Len(boxes) = 2
    /\ Len(destinations_map) = 2
    /\ \A j \in 1..Len(boxes) : boxes[j].destination # inv_call.arg


\* breadth-first search over the traversable cells of m: the number of steps
\* from the frontier (n steps from the start) to goal, -1 when there is no way
RECURSIVE BfsSteps(_, _, _, _, _)
BfsSteps(m, frontier, seen, goal, n) ==
    IF goal \in frontier THEN n
    ELSE IF frontier = {} THEN -1
    ELSE LET next == {c \in CellsOf(m.width, m.height) \ (seen \cup m.obstacles) :
                         \E d \in frontier : Abs(c[1] - d[1]) + Abs(c[2] - d[2]) = 1}
         IN  BfsSteps(m, next, seen \cup next, goal, n + 1)

\* the least number of grid steps from s to g through traversable cells
StepsBetween(m, s, g) ==
    IF is_valid_in(m, s) THEN BfsSteps(m, {s}, {s}, g, 0) ELSE -1

\* C13: whenever a 4-connected way through traversable cells exists, the
\* path _a_star finds leads from start to goal by steps between traversable
\* neighbours and has the breadth-first number of steps, whichever cell of
\* least f is taken; on an obstacle-free grid, within a row, that number is
\* the difference of the columns.
C13_AStarShortest ==
    (unit.op = "plan_path" /\ unit.done
        /\ StepsBetween(unit.map, unit.start, unit.goal) >= 0)
    => /\ unit.found # <<>>
       /\ unit.found[1] = unit.start
       /\ unit.found[Len(unit.found)] = unit.goal
       /\ \A i \in 1..(Len(unit.found) - 1) :
             /\ is_valid_in(unit.map, unit.found[i + 1])
             /\ Abs(unit.found[i + 1][1] - unit.found[i][1])
                  + Abs(unit.found[i + 1][2] - unit.found[i][2]) = 1
       /\ Len(unit.found) - 1 = StepsBetween(unit.map, unit.start, unit.goal)
       /\ (unit.map.obstacles = {} /\ unit.start[2] = unit.goal[2])
             => Len(unit.found) - 1 = Abs(unit.start[1] - unit.goal[1])

C13_Witness ==
    /\ unit.op = "plan_path" /\ unit.done
    /\ unit.map.obstacles # {}
    /\ Len(unit.found) - 1 = 4
    /\ Abs(unit.start[1] - unit.goal[1]) + Abs(unit.start[2] - unit.goal[2]) = 2

\* C14 (as stated): plan_path raises the no-path NavigationError exactly
\* when no 4-connected sequence of traversable cells leads from the start
\* cell to the goal cell.
C14_NoPathExactly ==
    (unit.op = "plan_path" /\ unit.done)
    => (~unit.ok <=> StepsBetween(unit.map, unit.start, unit.goal) = -1)

\* C14 (amended): from a traversable start cell, plan_path raises the
\* no-path NavigationError exactly when no 4-connected sequence of
\* traversable cells leads to the goal cell; the start cell itself is never
\* tested, so from an obstacle cell a path is returned whenever the goal is
\* the start or can be reached from a traversable neighbour of it.
C14_NoPathFromTraversableStart ==
    (unit.op = "plan_path" /\ unit.done)
    => /\ is_valid_in(unit.map, unit.start)
            => (~unit.ok <=> StepsBetween(unit.map, unit.start, unit.goal) = -1)
       /\ ~is_valid_in(unit.map, unit.start)
            => (unit.ok <=>
                  \/ unit.goal = unit.start
                  \/ \E n \in CellsOf(unit.map.width, unit.map.height) :
                        /\ Abs(n[1] - unit.start[1]) + Abs(n[2] - unit.start[2]) = 1
                        /\ StepsBetween(unit.map, n, unit.goal) >= 0)

C14_Witness ==
    /\ unit.op = "plan_path" /\ unit.done
    /\ ~unit.ok
    /\ is_valid_in(unit.map, unit.start)
    /\ is_valid_in(unit.map, unit.goal)
    /\ unit.map.width = 3 /\ unit.map.height = 2


\* the squared Euclidean distance of two poses
Dist2(a, b) == (a[1] - b[1]) * (a[1] - b[1]) + (a[2] - b[2]) * (a[2] - b[2])

\* the pose the i-th element of a route is chosen from
ReferencePose(locs, r, i) == IF i = 1 THEN <<0, 0>> ELSE locs[r[i - 1]]

\* C15: for distinct known destinations plan_multi_drop_route returns each
\* of them exactly once, and each element is, among those not yet placed, one
\* of the nearest to the origin (first element) or to the pose of the element
\* before it.
C15_RouteNearestNeighbour ==
    (unit.op = "plan_multi_drop_route" /\ unit.done)
    => /\ unit.ok
       /\ Len(unit.out) = Len(unit.destinations)
       /\ Range(unit.out) = Range(unit.destinations)
       /\ \A i \in 1..Len(unit.out) : \A j \in i..Len(unit.out) :
             Dist2(ReferencePose(unit.locations, unit.out, i), unit.locations[unit.out[i]])
               <= Dist2(ReferencePose(unit.locations, unit.out, i),
                        unit.locations[unit.out[j]])

C15_Witness ==
    /\ unit.op = "plan_multi_drop_route" /\ unit.done
    /\ unit.locations = [A |-> <<1, 0>>, B |-> <<5, 0>>, C |-> <<3, 0>>]
    /\ unit.destinations = <<"B", "C", "A">>
    /\ unit.out = <<"A", "C", "B">>


\* at least two waypoints, all on one row or all on one column, travelled in
\* one direction
StraightLine(w) ==
    /\ Len(w) >= 2
    /\ \E k \in {1, 2} : \E sign \in {-1, 1} :
          \A i \in 1..(Len(w) - 1) :
             /\ w[i + 1][3 - k] = w[i][3 - k]
             /\ sign * (w[i + 1][k] - w[i][k]) > 0

\* C16: _smooth_path returns exactly the two endpoints of a straight-line
\* path, whatever its direction of travel.
C16_StraightLineToEndpoints ==
    (unit.op = "smooth_path" /\ unit.done /\ StraightLine(unit.waypoints))
    => unit.out = <<unit.waypoints[1], unit.waypoints[Len(unit.waypoints)]>>

\* a is b with some elements left out
RECURSIVE IsSubsequence(_, _)
IsSubsequence(a, b) ==
    IF a = <<>> THEN TRUE
    ELSE IF b = <<>> THEN FALSE
    ELSE IF Head(a) = Head(b) THEN IsSubsequence(Tail(a), Tail(b))
    ELSE IsSubsequence(a, Tail(b))

\* C17: for a non-empty path the output of _smooth_path is a subsequence of
\* the input in the input's order, no longer than it, with the same first
\* and the same last waypoint.
C17_SmoothKeepsEnds ==
    (unit.op = "smooth_path" /\ unit.done /\ unit.waypoints # <<>>)
    => /\ IsSubsequence(unit.out, unit.waypoints)
       /\ Len(unit.out) <= Len(unit.waypoints)
       /\ unit.out[1] = unit.waypoints[1]
       /\ unit.out[Len(unit.out)] = unit.waypoints[Len(unit.waypoints)]

C17_Witness ==
    /\ unit.op = "smooth_path" /\ unit.done
    /\ unit.waypoints = <<(<<0, 0>>), (<<1, 0>>), (<<2, 0>>)>>
    /\ unit.out = <<(<<0, 0>>), (<<2, 0>>)>>


\* C18: in the sense step, a reading strictly below the minimum distance
\* makes the chassis stop and the cooldown pause pass, after which the tick
\* goes on to its decision, and no route or path is computed; without such a
\* reading obstacle handling is not run.
C18_ObstaclePauseThenDecide ==
    (unit.op = "get_readings" /\ unit.st = "checked")
    => /\ pc = "branch"
       /\ raised = <<>>
       /\ route = <<>> /\ path = <<>>
       /\ ObstacleIn(unit.readings) => motors = "stopped"

\* C19: get_readings returns only when every measurement is over, with one
\* entry per sensor position, each the distance its measurement returned and
\* inf for one that timed out or failed; the obstacle check is made on this
\* mapping only.
C19_ReadingsComplete ==
    unit.op = "get_readings" =>
       /\ unit.st # "measuring" =>
             /\ DOMAIN unit.readings = SensorPositions
             /\ \A p \in SensorPositions :
                   /\ unit.tasks[p].at = "returned"
                   /\ unit.readings[p] \in ReadingValues
                   /\ unit.readings[p] = unit.tasks[p].ret
       /\ unit.st # "checked" => pc = "check_sensors" /\ raised = <<>>

C19_Witness ==
    /\ unit.op = "get_readings" /\ unit.st = "checked"
    /\ unit.readings = [p \in SensorPositions |->
                           IF p = "front" THEN 50 ELSE Inf]
    /\ pc = "branch"


\* the coordinates, in halves, lie in [0, width) x [0, height)
InsideGrid(m, pose) ==
    /\ 0 <= pose[1] /\ pose[1] < 2 * m.width
    /\ 0 <= pose[2] /\ pose[2] < 2 * m.height

\* C20: is_valid_position is false for a pose whose coordinates lie outside
\* [0, width) x [0, height), fractional and negative ones included, false
\* when the cell of the truncated coordinates is an obstacle, and true
\* otherwise.
C20_ValidIffInsideAndFree ==
    (unit.op = "is_valid_position" /\ unit.done)
    => unit.out =
          (/\ InsideGrid(unit.map, unit.pose)
           /\ <<int_of_halves(unit.pose[1]), int_of_halves(unit.pose[2])>>
                 \notin unit.map.obstacles)


\* a required key is absent or a value has the wrong type, at the top level
\* or inside an obstacle or location entry
Malformed(file) ==
    \/ file.k \in {"no_json", "list"}
    \/ file.obstacles.k \in {"absent", "number"}
    \/ \E i \in 1..Len(file.obstacles.items) :
          \/ file.obstacles.items[i].k # "object"
          \/ file.obstacles.items[i].x.k # "int"
          \/ file.obstacles.items[i].y.k # "int"
    \/ file.locations # "entry_ok"

\* the listed cells that lie in the grid
ListedInRange(file) ==
    {c \in (0..(Width - 1)) \X (0..(Height - 1)) :
        \E i \in 1..Len(file.obstacles.items) :
           /\ file.obstacles.items[i].k = "object"
           /\ file.obstacles.items[i].x = IntField(c[1])
           /\ file.obstacles.items[i].y = IntField(c[2])}

\* C21: _load_map fails with NavigationError and nothing else whenever the
\* file is missing or malformed; when it succeeds the grid has obstacles
\* exactly at the listed cells that lie in range.
C21_LoadFailsWithNavigationError ==
    (unit.op = "load_map" /\ unit.done)
    => /\ unit.out.exc \in {"ok", "NavigationError"}
       /\ (unit.file.k = "missing" \/ Malformed(unit.file))
             => unit.out.exc = "NavigationError"
       /\ unit.out.exc = "ok" => unit.out.cells = ListedInRange(unit.file)


\* C22: create_box_info returns a record only when all four keys are present
\* and the quantity can be made an integer; otherwise it returns None and
\* raises nothing.
C22_RecordOrNone ==
    (unit.op = "create_box_info" /\ unit.done)
    => /\ unit.exc = None
       /\ unit.box # NoBox
             <=> (RequiredFields \subseteq unit.qr.keys /\ IntCoercible(unit.qr.quantity))


IndexIn(w, e) == CHOOSE i \in 1..Len(w) : w[i] = e

\* c lies on the straight segment from a to b
OnSegment(a, b, c) ==
    /\ (b[1] - a[1]) * (c[2] - a[2]) = (b[2] - a[2]) * (c[1] - a[1])
    /\ (c[1] - a[1]) * (c[1] - b[1]) <= 0
    /\ (c[2] - a[2]) * (c[2] - b[2]) <= 0

\* C24: every waypoint _smooth_path drops from a path of the search lies on
\* the straight segment between the kept waypoints around it (no corner is
\* dropped).
C24_NoCornerDropped ==
    (unit.op = "plan_path" /\ unit.done /\ unit.ok)
    => \A k \in 1..(Len(unit.out) - 1) :
          \A i \in 1..Len(unit.found) :
             (IndexIn(unit.found, unit.out[k]) < i
                /\ i < IndexIn(unit.found, unit.out[k + 1]))
             => OnSegment(unit.out[k], unit.out[k + 1], unit.found[i])


\* the ways a path of the search can be ill-formed, its first cell apart
WellFormedPath(m, s, g, w) ==
    /\ w[1] = s
    /\ w[Len(w)] = g
    /\ \A i \in 1..(Len(w) - 1) :
          Abs(w[i + 1][1] - w[i][1]) + Abs(w[i + 1][2] - w[i][2]) = 1
    /\ \A i \in 1..Len(w) : \A j \in 1..Len(w) : w[i] = w[j] => i = j
    /\ \A i \in 2..Len(w) : is_valid_in(m, w[i])

\* C25 (as stated): every path of _a_star starts at the start cell, ends at
\* the goal cell, moves between 4-adjacent cells, visits no cell twice and
\* consists only of traversable cells, whatever the start cell is.
C25_PathThroughTraversableCells ==
    (unit.op = "plan_path" /\ unit.done /\ unit.ok)
    => /\ WellFormedPath(unit.map, unit.start, unit.goal, unit.found)
       /\ is_valid_in(unit.map, unit.found[1])

\* C25 (amended): the same, except that only the cells after the first are
\* traversable for every start: _a_star never tests the start cell.
C25_PathTraversableAfterStart ==
    (unit.op = "plan_path" /\ unit.done /\ unit.ok)
    => WellFormedPath(unit.map, unit.start, unit.goal, unit.found)

C25_Witness ==
    /\ unit.op = "plan_path" /\ unit.done /\ unit.ok
    /\ unit.start \in unit.map.obstacles
    /\ Len(unit.found) = 4
    /\ \E i \in 2..3 : unit.found[i][1] # unit.found[i + 1][1]
    /\ \E i \in 2..3 : unit.found[i][2] # unit.found[i + 1][2]


C27_RecoveryOnlyOnFailure ==
    pc = "handle_error" => err \in FailureKinds


\* r holds every element of ks exactly once
IsPermutation(r, ks) ==
    /\ Len(r) = Len(ks)
    /\ Range(r) = Range(ks)
    /\ \A i, j \in 1..Len(r) : r[i] = r[j] => i = j

C29_GraspedBoxIsTracked ==
    /\ [](pc \in PickupPcs => Len(boxes) < MAX_BOXES)
    /\ [][(pc = "pickup" /\ pc' # "pickup" /\ armRet = "True")
            => /\ Len(boxes) < MAX_BOXES
               /\ inv_call'.op = "add_box" /\ ~inv_call'.full
               /\ Len(boxes') = Len(boxes) + 1
               /\ boxes'[Len(boxes')] = box_info
               /\ box_info \in Range(get_boxes_for_destination(destinations_map',
                                                               box_info.destination))]_vars

C29_Witness ==
    /\ pc = "sleep"
    /\ inv_call.op = "add_box" /\ ~inv_call.full
    /\ Len(boxes) = MAX_BOXES
    /\ boxes[MAX_BOXES] = box_info


\* the cells the search can ever hold: the traversable ones and the start
Searchable(m, s) == {c \in CellsOf(m.width, m.height) : is_valid_in(m, c)} \cup {s}

\* C30: on every grid, obstacle set, start and goal (also outside the grid or
\* on an obstacle) the loop of _a_star stops after finitely many expansions,
\* with a path or with None, whichever cell of least f is taken: no cell is
\* expanded twice, so there are at most as many expansions as traversable
\* cells and the start; while the loop runs its next turn is defined; and it
\* ends with a path from the start to the goal or with an empty open set.
C30_SearchTerminates ==
    unit.op = "a_star" =>
        /\ DOMAIN unit.st.g \subseteq Searchable(unit.map, unit.start)
        /\ unit.st.open \subseteq DOMAIN unit.st.g
        /\ unit.expansions + Cardinality(unit.st.open) = Cardinality(DOMAIN unit.st.g)
        /\ unit.expansions <= Cardinality(Searchable(unit.map, unit.start))
        /\ (~unit.done /\ unit.st.open # {} => MinF(unit.st) # {})
        /\ (unit.done =>
              \/ /\ unit.ok
                 /\ unit.found # <<>>
                 /\ unit.found[1] = unit.start
                 /\ unit.found[Len(unit.found)] = unit.goal
              \/ /\ ~unit.ok
                 /\ unit.st.open = {}
                 /\ unit.found = <<>>)

\* a search that has expanded every cell it could reach, the start on an
\* obstacle included, and has ended without a path
C30_Witness ==
    /\ unit.op = "a_star" /\ unit.done /\ ~unit.ok
    /\ unit.start \in unit.map.obstacles
    /\ unit.goal \notin CellsOf(unit.map.width, unit.map.height)
    /\ unit.expansions >= 4


\* ------------------------------------------------------------------------
\* Progress of the mission
\* ------------------------------------------------------------------------
\* a step in which a hardware collaborator does not respond successfully: an
\* arm timeout or "error" line, a refused connection, a sensor reading below
\* the minimum distance, a scan without a usable code
HardwareFailure ==
    \/ (future.state = "pending" /\ future'.state = "cancelled")
    \/ (Len(wire') > Len(wire) /\ wire'[Len(wire')].err)
    \/ (pc = "check_sensors" /\ pc' = "handle_error")
    \/ (pc \in {"rec_sensors", "rec_reinit"} /\ pc' = "shutdown")
    \/ (pc = "scan" /\ pc' = "sleep")

\* the steps of a run in which every hardware collaborator responds, and
\* responds successfully
Good(A) == A /\ ~HardwareFailure

LoopStepGood ==
    \/ Good(CheckSensors)
    \/ Branch
    \/ Good(Scan)
    \/ TickDelay
    \/ HandleDeliveries
    \/ NavigateTo
    \/ MoveToWaypoint
    \/ DeliverBoxes
    \/ PlaceBox
    \/ HandleError
    \/ Good(RecSensors)
    \/ Good(RecReinit)
    \/ ArmReturn
    \/ ArmSend
    \/ ArmAwait

NextGood ==
    \/ LoopStepGood
    \/ Good(DevRespond)
    \/ DataReceived

\* the coroutine of main() is resumed whenever it can run, the arm answers
\* every command, and the event loop hands over every line it has read
FairSpec ==
    /\ Init
    /\ [][NextGood]_vars
    /\ WF_vars(LoopStepGood)
    /\ WF_vars(Good(DevRespond))
    /\ WF_vars(DataReceived)

\* a tick has failed with one of them and handle_error has returned
Recovered == pc = "check_sensors" /\ err \in FailureKinds

\* a grasped box is about to be recorded, or delivered boxes to be cleared
Progress ==
    \/ (pc = "pickup" /\ armSt = "done" /\ grasp_ok(armRet))
    \/ (pc = "place" /\ todo = <<>>)

\* C6: with hardware that always responds successfully and a fair control
\* loop, every recovered failure is followed by a further pickup or by a
\* delivery that clears held boxes.
C6_NeverHaltedIndefinitely == Recovered ~> Progress

====
